---- MODULE Spec2Model ----
(***************************************************************************)
(* whatsmeow-transcribe (src/main.go): a WhatsApp client that uploads      *)
(* every received voice note to a speech-to-text HTTP endpoint and posts   *)
(* the answer into the conversation, plus the interactive operator loop    *)
(* (stdin commands, pairing decisions, signals) that main() runs.          *)
(*                                                                         *)
(* Goroutines of the program and their model:                              *)
(*   handler(evt)      one task per delivered event       ht[h]            *)
(*   main select loop  main.go:140-165                    mainpc           *)
(*   stdin reader      main.go:130-139                    linesLeft, ...   *)
(*   handleCmd         one task per dispatched command    cmds[i]          *)
(*   PrePairCallback   run by the client library          cbpc             *)
(* os.Exit, a return from main and an unrecovered panic end the process:   *)
(* every action of the program is guarded by proc = "Running".             *)
(***************************************************************************)
EXTENDS Integers, Sequences, FiniteSets, TLC

\* ------------------------------------------------------------- bounds
\* number of events the client library delivers in one run
MaxEvents == 2
\* number of lines read from stdin in one run
MaxLines == 2
\* number of pairing requests (PrePairCallback invocations) in one run
MaxPairs == 2
\* length of the recipient arguments parseJID is checked on
MaxJidLen == 3
\* events delivered and lines read while handlers and commands interleave
MaxPlayEvents == 1
MaxPlayLines == 2

\* ---------------------------------------------------- program constants
\* http.StatusOK, compared with resp.StatusCode in getTranscription
StatusOK == 200
\* time.After(3 * time.Second) in PrePairCallback
PairWindow == 3
\* make(chan bool, 1)
PairChanCap == 1
\* exit status of a Go program that ends in an unrecovered panic
PanicExit == 2

\* ------------------------------------------------------ input domains
Handlers == 1 .. MaxEvents
Chats == {"chatA", "chatB"}
\* raw audio payloads returned by cli.Download
AudioData == {<<7>>, <<8, 9>>}
\* HTTP response bodies (byte sequences), the empty body included
Bodies == {<<>>, <<104, 105>>, <<123, 125>>}
\* HTTP status codes of a completed exchange
Statuses == {200, 401}

NoEvent == [type |-> "none", audio |-> "none", chat |-> "none"]
\* events the client library can deliver to handler
Events ==
  {[type |-> t, audio |-> "none", chat |-> "none"] :
      t \in {"StreamReplaced", "Disconnected", "Receipt"}}
  \cup {[type |-> "Message", audio |-> a, chat |-> c] :
      a \in {"none", "file", "ptt"}, c \in Chats}

\* values of --api-key: not given (the flag's default, the empty string), or
\* a key
FlagKeys == {<<>>, <<"f">>}
\* values of API_KEY in the environment: not set, or a key
EnvKeys == {<<>>, <<"e">>}

\* a *string in Go: <<>> is nil, <<s>> points to s
NilText == <<>>

\* Strings that are inspected character by character (recipients, message
\* words) are sequences of one-character strings.
JidAlphabet == {"+", "@", "4", "s"}
RECURSIVE SeqsUpTo(_, _)
SeqsUpTo(S, n) ==
  IF n = 0 THEN {<<>>}
  ELSE LET shorter == SeqsUpTo(S, n - 1)
       IN shorter \cup {Append(q, c) : q \in {x \in shorter : Len(x) = n - 1}, c \in S}
\* the non-empty recipient arguments strings.Fields can produce
JidArgs == SeqsUpTo(JidAlphabet, MaxJidLen) \ {<<>>}

\* types.DefaultUserServer ("s.whatsapp.net", written s)
DefaultUserServer == <<"s">>

\* A line of stdin: pad says whether white space surrounds it, name is its
\* first field ("" for a line of white space only) and args are the others.
RawLine(pad, name, args) == [pad |-> pad, name |-> name, args |-> args]
StdinLines ==
  {RawLine(FALSE, "", <<>>), RawLine(TRUE, "", <<>>),
   RawLine(FALSE, "r", <<>>), RawLine(TRUE, "a", <<>>),
   RawLine(FALSE, "reconnect", <<>>), RawLine(FALSE, "LogOut", <<>>),
   RawLine(FALSE, "pair-phone", <<>>), RawLine(FALSE, "pair-phone", <<(<<"4">>)>>),
   RawLine(FALSE, "send", <<(<<"4">>)>>),
   RawLine(FALSE, "send", <<(<<"+">>), (<<"h">>)>>),
   RawLine(FALSE, "send", <<(<<"4", "@", "s">>), (<<"h">>), (<<"i">>)>>)}

\* a value of the input channel: the trimmed line; "" is [name |-> ""]
Line(name, args) == [name |-> name, args |-> args]
EmptyLine == Line("", <<>>)

VARIABLES
  proc,        \* "Running" or "Terminated"
  exitCode,    \* exit status of the process once Terminated, -1 before
  apiUrlValid, \* whether http.NewRequest accepts *apiUrl (set by the flag)
  apiKey,      \* *apiKey after flag.Parse(): the default "" without --api-key
  envApiKey,   \* the environment variable API_KEY, "" when it is not set
  ht,          \* ht[h]: the handler task of the h-th delivered event
  connected,   \* whether cli is connected
  sigPending,  \* the signal channel c (capacity 1) holds a signal
  linesLeft,   \* lines stdin will still yield
  inputClosed, \* close(input) has run
  mainpc,      \* main loop: select, load, send
  mainCmd,     \* cmd of the main loop
  cmds,        \* the running handleCmd tasks, in the order they were started
  finished,    \* history: the handleCmd tasks that returned
  isWaitingForPair, \* the atomic.Bool of main
  pairRejectChan,   \* the buffered channel: a sequence of at most PairChanCap
  cbpc,        \* PrePairCallback: idle, waiting (in select), decided
  cbGot,       \* what its select yielded: none, reject, accept, timeout
  elapsed,     \* seconds since its select began
  nPairs,      \* number of completed invocations of the callback
  lastPair     \* history: [got, ret] of the last completed invocation

procVars == <<proc, exitCode>>
confVars == <<apiUrlValid, apiKey, envApiKey>>
mainVars == <<connected, sigPending, linesLeft, inputClosed, mainpc,
              mainCmd, cmds, finished>>
pairVars == <<isWaitingForPair, pairRejectChan, cbpc, cbGot, elapsed, nPairs, lastPair>>
vars == <<procVars, confVars, ht, mainVars, pairVars>>

\* a handler task before its event is delivered; the fields are the locals of
\* handler and getTranscription, and counters of the calls the task made
IdleTask ==
  [pc |-> "idle",          \* idle, start, downloaded, http, returned, done
   evt |-> NoEvent,        \* rawEvt
   dlErr |-> FALSE,        \* err of cli.Download
   audio_data |-> <<>>,    \* audio_data
   maybeText |-> NilText,  \* maybeText
   status |-> 0,           \* resp.StatusCode, 0 while there is no response
   body |-> <<>>,          \* the bytes the endpoint sent as the response body
   err |-> "none",         \* the failing step of getTranscription
   nDownload |-> 0,        \* calls of cli.Download
   nRequest |-> 0,         \* calls of client.Do
   auth |-> <<>>,          \* the Authorization headers of those requests
   nWarn |-> 0,            \* calls of log.Warnf
   replies |-> <<>>,       \* calls of cli.SendMessage: <<[to, text]>>
   replyConn |-> <<>>]     \* whether cli was connected at each of those calls

\* lastPair before the first invocation has returned
NoPair == [got |-> "none", ret |-> TRUE]

Running == proc = "Running"

\* OsExit that returns to its caller
OsExit_Returns(code) == UNCHANGED <<proc, exitCode>>

\* os.Exit(code), and every other way the process ends
OsExit(code) ==
  /\ proc' = "Terminated"
  /\ exitCode' = code

\* the state when main reaches its select loop, with the handleCmd tasks
\* `tasks` running and `lines` lines of stdin to come
InitOf(tasks, lines) ==
  /\ proc = "Running"
  /\ exitCode = -1
  /\ apiUrlValid \in BOOLEAN
  /\ apiKey \in FlagKeys
  /\ envApiKey \in EnvKeys
  /\ ht = [h \in Handlers |-> IdleTask]
  /\ connected = TRUE
  /\ sigPending = FALSE
  /\ linesLeft = lines
  /\ inputClosed = FALSE
  /\ mainpc = "select"
  /\ mainCmd = EmptyLine
  /\ cmds = tasks
  /\ finished = {}
  /\ isWaitingForPair = FALSE
  /\ pairRejectChan = <<>>
  /\ cbpc = "idle"
  /\ cbGot = "none"
  /\ elapsed = 0
  /\ nPairs = 0
  /\ lastPair = NoPair

Init == InitOf(<<>>, MaxLines)

\* the configuration of the README's command line: --api-key given, API_KEY
\* not set
KeyByFlag == apiKey = <<"f">> /\ envApiKey = <<>>

\* the client library invokes handler(e) on a task of its own
Deliver(h, e) ==
  /\ Running
  /\ ht[h].pc = "idle"
  /\ \A g \in Handlers : g < h => ht[g].pc # "idle"
  /\ ht' = [ht EXCEPT ![h].evt = e, ![h].pc = "start"]
  /\ UNCHANGED <<procVars, confVars, mainVars, pairVars>>

\* handler, case *events.StreamReplaced, *events.Disconnected
IsTerminalEvent(e) == e.type \in {"StreamReplaced", "Disconnected"}

\* HasAudio without the nil test of the audio message
HasAudio_AnyMessage(e) == e.type = "Message"

\* am := evt.Message.GetAudioMessage(); am != nil
HasAudio(e) == e.type = "Message" /\ e.audio # "none"

\* GetPtt that holds of every audio attachment
GetPtt_AnyAudio(e) == e.audio # "none"

\* am.GetPtt()
GetPtt(e) == e.audio = "ptt"

\* AfterDownload without the return of the error branch
AfterDownload_NoReturn(err) == "downloaded"

\* AfterDownload that tries the download again after an error
AfterDownload_Retry(err) == IF err THEN "start" ELSE "downloaded"

\* where handler goes after cli.Download returned err
AfterDownload(err) == IF err THEN "done" ELSE "downloaded"

\* handler up to the return of cli.Download: the type switch, the log line
\* and the download of the audio attachment
HandlerStart(h) ==
  /\ Running
  /\ ht[h].pc = "start"
  /\ IF IsTerminalEvent(ht[h].evt)
       THEN /\ OsExit(0)
            /\ ht' = [ht EXCEPT ![h].pc = "done"]
       ELSE /\ UNCHANGED procVars
            /\ IF HasAudio(ht[h].evt)
                 THEN \E err \in BOOLEAN : \E d \in AudioData :
                        ht' = [ht EXCEPT
                                 ![h].nDownload = @ + 1,
                                 ![h].dlErr = err,
                                 ![h].audio_data = IF err THEN <<>> ELSE d,
                                 ![h].pc = AfterDownload(err)]
                 ELSE ht' = [ht EXCEPT ![h].pc = "done"]
  /\ UNCHANGED <<confVars, mainVars, pairVars>>

\* getTranscription up to client.Do: the multipart body never fails to build
\* (it is written to a bytes.Buffer); http.NewRequest fails on a bad *apiUrl
BuildFails == ~apiUrlValid

\* fmt.Sprintf("Bearer %s", *apiKey)
AuthHeader == <<"Bearer", " ">> \o apiKey

\* handler after the download: the push-to-talk test, and getTranscription
\* until the request is on the wire
HandlerTranscribe(h) ==
  /\ Running
  /\ ht[h].pc = "downloaded"
  /\ IF ~GetPtt(ht[h].evt)
       THEN ht' = [ht EXCEPT ![h].pc = "done"]
       ELSE IF BuildFails
         THEN ht' = [ht EXCEPT ![h].nWarn = @ + 1, ![h].err = "build",
                               ![h].maybeText = NilText, ![h].pc = "returned"]
         ELSE ht' = [ht EXCEPT ![h].nRequest = @ + 1,
                               ![h].auth = Append(@, AuthHeader),
                               ![h].pc = "http"]
  /\ UNCHANGED <<procVars, confVars, mainVars, pairVars>>

\* ResponseText that returns nil unless the status is 200
ResponseText_OkOnly(status, body) == IF status = StatusOK THEN <<body>> ELSE NilText

\* responseText := string(resposeBody); return &responseText
ResponseText(status, body) == <<body>>

\* log.Warnf when resp.StatusCode != http.StatusOK
StatusWarnings(status) == IF status # StatusOK THEN 1 ELSE 0

\* HttpSendError that logs nothing and returns a pointer to the empty string
HttpSendError_EmptyText(h) ==
  /\ Running
  /\ ht[h].pc = "http"
  /\ ht' = [ht EXCEPT ![h].err = "send", ![h].maybeText = <<(<<>>)>>,
                      ![h].pc = "returned"]
  /\ UNCHANGED <<procVars, confVars, mainVars, pairVars>>

\* client.Do fails: one warning, nil
HttpSendError(h) ==
  /\ Running
  /\ ht[h].pc = "http"
  /\ ht' = [ht EXCEPT ![h].nWarn = @ + 1, ![h].err = "send",
                      ![h].maybeText = NilText, ![h].pc = "returned"]
  /\ UNCHANGED <<procVars, confVars, mainVars, pairVars>>

\* client.Do succeeds with some status, io.ReadAll fails: one warning, nil
HttpReadError(h, status) ==
  /\ Running
  /\ ht[h].pc = "http"
  /\ ht' = [ht EXCEPT ![h].nWarn = @ + 1, ![h].err = "read",
                      ![h].status = status,
                      ![h].maybeText = NilText, ![h].pc = "returned"]
  /\ UNCHANGED <<procVars, confVars, mainVars, pairVars>>

\* the exchange completes: the body is returned whatever the status
HttpResponse(h, status, body) ==
  /\ Running
  /\ ht[h].pc = "http"
  /\ ht' = [ht EXCEPT ![h].nWarn = @ + StatusWarnings(status),
                      ![h].status = status, ![h].body = body,
                      ![h].maybeText = ResponseText(status, body),
                      ![h].pc = "returned"]
  /\ UNCHANGED <<procVars, confVars, mainVars, pairVars>>

\* ReplyChat read from a variable that the tasks share
ReplyChat_Shared(h) == ht[1].evt.chat

\* evt.Info.MessageSource.Chat
ReplyChat(h) == ht[h].evt.chat

\* text := *maybeText
ReplyText(h) == ht[h].maybeText[1]

\* handler after getTranscription returned: the reply, if there is a text
HandlerReply(h) ==
  /\ Running
  /\ ht[h].pc = "returned"
  /\ IF ht[h].maybeText # NilText
       THEN ht' = [ht EXCEPT
                     ![h].replies = Append(@, [to |-> ReplyChat(h), text |-> ReplyText(h)]),
                     ![h].replyConn = Append(@, connected),
                     ![h].pc = "done"]
       ELSE ht' = [ht EXCEPT ![h].pc = "done"]
  /\ UNCHANGED <<procVars, confVars, mainVars, pairVars>>

\* --------------------------------------------------------- stdin reader
\* strings.TrimSpace(scan.Text())
TrimSpace(raw) == Line(raw.name, raw.args)

\* len(line) of a trimmed line is positive iff it has a first field
LineLen(line) == IF line.name = "" THEN 0 ELSE 1

\* Forwards without the length test
Forwards_Always(raw) == TRUE

\* the reader's test before input <- line
Forwards(raw) == LineLen(TrimSpace(raw)) > 0

\* the reader goroutine scans a line that it does not forward
ReaderSkip(raw) ==
  /\ Running
  /\ ~inputClosed
  /\ linesLeft > 0
  /\ ~Forwards(raw)
  /\ linesLeft' = linesLeft - 1
  /\ UNCHANGED <<procVars, confVars, ht, connected, sigPending, inputClosed,
                 mainpc, mainCmd, cmds, finished, pairVars>>

\* scan.Scan() returns false (end of stdin): the deferred close(input)
ReaderEOF ==
  /\ Running
  /\ ~inputClosed
  /\ inputClosed' = TRUE
  /\ UNCHANGED <<procVars, confVars, ht, connected, sigPending, linesLeft,
                 mainpc, mainCmd, cmds, finished, pairVars>>

\* the operating system delivers SIGINT or SIGTERM; signal.Notify drops it
\* when the channel is full
Signal ==
  /\ Running
  /\ ~sigPending
  /\ sigPending' = TRUE
  /\ UNCHANGED <<procVars, confVars, ht, connected, linesLeft,
                 inputClosed, mainpc, mainCmd, cmds, finished, pairVars>>

\* ------------------------------------------------------------ main loop
\* case <-c: cli.Disconnect(); return
MainInterrupt ==
  /\ Running
  /\ mainpc = "select"
  /\ sigPending
  /\ sigPending' = FALSE
  /\ connected' = FALSE
  /\ OsExit(0)
  /\ UNCHANGED <<confVars, ht, linesLeft, inputClosed, mainpc,
                 mainCmd, cmds, finished, pairVars>>

\* case cmd := <-input, for the value v received: on the empty string
\* cli.Disconnect() and return, otherwise on to isWaitingForPair.Load()
MainReceived(v) ==
  /\ mainCmd' = v
  /\ IF LineLen(v) = 0
       THEN /\ connected' = FALSE
            /\ OsExit(0)
            /\ UNCHANGED mainpc
       ELSE /\ mainpc' = "load"
            /\ UNCHANGED <<procVars, connected>>

\* the receive from the closed channel yields the empty string
MainStdinClosed ==
  /\ Running
  /\ mainpc = "select"
  /\ inputClosed
  /\ MainReceived(EmptyLine)
  /\ UNCHANGED <<confVars, ht, sigPending, linesLeft, inputClosed, cmds, finished, pairVars>>

\* the reader scans a line it forwards, and main receives it: input is
\* unbuffered, so the send and the receive are one step
MainRecvLine(raw) ==
  /\ Running
  /\ mainpc = "select"
  /\ ~inputClosed
  /\ linesLeft > 0
  /\ Forwards(raw)
  /\ linesLeft' = linesLeft - 1
  /\ MainReceived(TrimSpace(raw))
  /\ UNCHANGED <<confVars, ht, sigPending, inputClosed, cmds, finished, pairVars>>

\* strings.ToLower on the command names of StdinLines
ToLower(name) == IF name = "LogOut" THEN "logout" ELSE name

\* cmd == "r", cmd == "a": the whole line
IsDecision(line) == line.args = <<>> /\ line.name \in {"r", "a"}

\* a handleCmd task as started by go handleCmd(strings.ToLower(cmd), args)
NewCmd(line) ==
  [pc |-> "start",            \* start, connect (reconnect only), done
   cmd |-> ToLower(line.name),
   args |-> line.args,
   ops |-> <<>>,              \* the client operations the task called
   sent |-> <<>>,             \* its cli.SendMessage calls: <<[to, text]>>
   nErr |-> 0,                \* its log.Errorf calls
   callErr |-> FALSE]         \* err != nil after its last client operation

\* isWaitingForPair.Load() and what follows without blocking: with the flag
\* set, go on to the channel send for r and a and continue for other lines;
\* with the flag clear, split the line and start handleCmd. cmd is a variable
\* of the loop body: it is empty again when the loop is back at its select.
MainLoad ==
  /\ Running
  /\ mainpc = "load"
  /\ IF isWaitingForPair
       THEN /\ IF IsDecision(mainCmd)
                 THEN /\ mainpc' = "send"
                      /\ UNCHANGED mainCmd
                 ELSE /\ mainpc' = "select"
                      /\ mainCmd' = EmptyLine
            /\ UNCHANGED cmds
       ELSE /\ cmds' = Append(cmds, NewCmd(mainCmd))
            /\ mainpc' = "select"
            /\ mainCmd' = EmptyLine
  /\ UNCHANGED <<procVars, confVars, ht, connected, sigPending, linesLeft,
                 inputClosed, finished, pairVars>>

\* pairRejectChan <- true / false: blocks while the buffer is full
MainSend ==
  /\ Running
  /\ mainpc = "send"
  /\ Len(pairRejectChan) < PairChanCap
  /\ pairRejectChan' = Append(pairRejectChan, mainCmd.name = "r")
  /\ mainpc' = "select"
  /\ mainCmd' = EmptyLine
  /\ UNCHANGED <<procVars, confVars, ht, connected, sigPending, linesLeft,
                 inputClosed, cmds, finished, isWaitingForPair, cbpc, cbGot, elapsed, nPairs, lastPair>>

\* ------------------------------------------------------------ parseJID
\* strings.ContainsRune(s, c)
ContainsRune(s, c) == \E i \in 1 .. Len(s) : s[i] = c

\* strings.Split(s, sep) for a one-character separator
RECURSIVE Split(_, _)
Split(s, sep) ==
  IF ~ContainsRune(s, sep) THEN <<s>>
  ELSE LET i == CHOOSE k \in 1 .. Len(s) :
                  s[k] = sep /\ \A j \in 1 .. (k - 1) : s[j] # sep
       IN <<SubSeq(s, 1, i - 1)>> \o Split(SubSeq(s, i + 1, Len(s)), sep)

\* types.NewJID(user, server)
NewJID(user, server) == [User |-> user, Server |-> server]

\* types.ParseJID of the client library on strings without ':' : the text
\* before the first '@' is the user, the text up to the next '@' the server
ParseJID(arg) ==
  LET parts == Split(arg, "@")
  IN IF Len(parts) = 1
       THEN [jid |-> NewJID(<<>>, parts[1]), err |-> FALSE]
       ELSE [jid |-> NewJID(parts[1], parts[2]), err |-> FALSE]

\* if arg[0] == '+' { arg = arg[1:] }
StripPlus(arg) == IF arg[1] = "+" THEN Tail(arg) ELSE arg

\* recipient.User == ""
NoUser(jid) == jid.User = <<>>

\* parseJID(arg) (types.JID, bool)
parseJID(arg) ==
  LET a == StripPlus(arg)
  IN IF ~ContainsRune(a, "@")
       THEN [jid |-> NewJID(a, DefaultUserServer), ok |-> TRUE]
       ELSE LET r == ParseJID(a)
            IN IF r.err THEN [jid |-> r.jid, ok |-> FALSE]
               ELSE IF NoUser(r.jid) THEN [jid |-> r.jid, ok |-> FALSE]
               ELSE [jid |-> r.jid, ok |-> TRUE]

\* strings.Join(words, " ")
RECURSIVE Join(_)
Join(words) ==
  IF words = <<>> THEN <<>>
  ELSE IF Len(words) = 1 THEN words[1]
  ELSE words[1] \o <<" ">> \o Join(Tail(words))

\* ----------------------------------------------------------- handleCmd
CmdAt(i, name) ==
  /\ Running
  /\ i \in 1 .. Len(cmds)
  /\ cmds[i].pc = "start"
  /\ cmds[i].cmd = name

\* handleCmd returns: task i leaves the running tasks as the record t
Finish(i, t) ==
  /\ cmds' = SubSeq(cmds, 1, i - 1) \o SubSeq(cmds, i + 1, Len(cmds))
  /\ finished' = finished \cup {[t EXCEPT !.pc = "done"]}

\* CmdPairPhoneUsage without its return: args[0] is then out of range, and
\* the run-time panic ends the process
CmdPairPhoneUsage_NoReturn(i) ==
  /\ CmdAt(i, "pair-phone")
  /\ Len(cmds[i].args) < 1
  /\ Finish(i, [cmds[i] EXCEPT !.nErr = @ + 1])
  /\ OsExit(PanicExit)
  /\ UNCHANGED <<confVars, ht, connected, sigPending, linesLeft,
                 inputClosed, mainpc, mainCmd, pairVars>>

\* case "pair-phone" without an argument: the usage error
CmdPairPhoneUsage(i) ==
  /\ CmdAt(i, "pair-phone")
  /\ Len(cmds[i].args) < 1
  /\ Finish(i, [cmds[i] EXCEPT !.nErr = @ + 1])
  /\ UNCHANGED <<procVars, confVars, ht, connected, sigPending, linesLeft,
                 inputClosed, mainpc, mainCmd, pairVars>>

\* case "pair-phone": cli.PairPhone; panic(err) ends the process
CmdPairPhone(i, err) ==
  /\ CmdAt(i, "pair-phone")
  /\ Len(cmds[i].args) >= 1
  /\ Finish(i, [cmds[i] EXCEPT !.ops = Append(@, "PairPhone"), !.callErr = err])
  /\ IF err THEN OsExit(PanicExit) ELSE UNCHANGED procVars
  /\ UNCHANGED <<confVars, ht, connected, sigPending, linesLeft,
                 inputClosed, mainpc, mainCmd, pairVars>>

\* case "reconnect": cli.Disconnect()
CmdReconnect(i) ==
  /\ CmdAt(i, "reconnect")
  /\ connected' = FALSE
  /\ cmds' = [cmds EXCEPT ![i].ops = Append(@, "Disconnect"), ![i].pc = "connect"]
  /\ UNCHANGED <<procVars, confVars, ht, sigPending, linesLeft, finished,
                 inputClosed, mainpc, mainCmd, pairVars>>

\* case "reconnect": err := cli.Connect(), which fails when the client is
\* connected already and may fail otherwise; the failure is logged
CmdConnect(i, err) ==
  /\ Running
  /\ i \in 1 .. Len(cmds)
  /\ cmds[i].pc = "connect"
  /\ connected => err
  /\ connected' = (connected \/ ~err)
  /\ Finish(i, [cmds[i] EXCEPT !.ops = Append(@, "Connect"),
                               !.callErr = err,
                               !.nErr = @ + (IF err THEN 1 ELSE 0)])
  /\ UNCHANGED <<procVars, confVars, ht, sigPending, linesLeft,
                 inputClosed, mainpc, mainCmd, pairVars>>

\* CmdLogout that panics on the error, as pair-phone does
CmdLogout_Panics(i, err) ==
  /\ CmdAt(i, "logout")
  /\ connected' = (connected /\ err)
  /\ Finish(i, [cmds[i] EXCEPT !.ops = Append(@, "Logout"), !.callErr = err])
  /\ IF err THEN OsExit(PanicExit) ELSE UNCHANGED procVars
  /\ UNCHANGED <<confVars, ht, sigPending, linesLeft,
                 inputClosed, mainpc, mainCmd, pairVars>>

\* case "logout": cli.Logout(), which disconnects when it succeeds
CmdLogout(i, err) ==
  /\ CmdAt(i, "logout")
  /\ connected' = (connected /\ err)
  /\ Finish(i, [cmds[i] EXCEPT !.ops = Append(@, "Logout"),
                               !.callErr = err,
                               !.nErr = @ + (IF err THEN 1 ELSE 0)])
  /\ UNCHANGED <<procVars, confVars, ht, sigPending, linesLeft,
                 inputClosed, mainpc, mainCmd, pairVars>>

\* case "send" with fewer than two arguments: the usage error
CmdSendUsage(i) ==
  /\ CmdAt(i, "send")
  /\ Len(cmds[i].args) < 2
  /\ Finish(i, [cmds[i] EXCEPT !.nErr = @ + 1])
  /\ UNCHANGED <<procVars, confVars, ht, connected, sigPending, linesLeft,
                 inputClosed, mainpc, mainCmd, pairVars>>

\* case "send": the recipient check, then cli.SendMessage, whose error is
\* logged; parseJID has logged the error of a recipient it rejects
CmdSend(i, err) ==
  /\ CmdAt(i, "send")
  /\ Len(cmds[i].args) >= 2
  /\ LET r == parseJID(cmds[i].args[1])
     IN IF ~r.ok
          THEN /\ ~err
               /\ Finish(i, [cmds[i] EXCEPT !.nErr = @ + 1])
          ELSE Finish(i, [cmds[i] EXCEPT
                        !.ops = Append(@, "SendMessage"),
                        !.sent = Append(@, [to |-> r.jid,
                                            text |-> Join(Tail(cmds[i].args))]),
                        !.callErr = err,
                        !.nErr = @ + (IF err THEN 1 ELSE 0)])
  /\ UNCHANGED <<procVars, confVars, ht, connected, sigPending, linesLeft,
                 inputClosed, mainpc, mainCmd, pairVars>>

\* the switch has no default case: any other command returns at once
CmdOther(i) ==
  /\ Running
  /\ i \in 1 .. Len(cmds)
  /\ cmds[i].pc = "start"
  /\ cmds[i].cmd \notin {"pair-phone", "reconnect", "logout", "send"}
  /\ Finish(i, cmds[i])
  /\ UNCHANGED <<procVars, confVars, ht, connected, sigPending, linesLeft,
                 inputClosed, mainpc, mainCmd, pairVars>>

\* ------------------------------------------------------ PrePairCallback
\* the client library calls cli.PrePairCallback, one call at a time:
\* isWaitingForPair.Store(true), then the select
PairStart ==
  /\ Running
  /\ cbpc = "idle"
  /\ nPairs < MaxPairs
  /\ isWaitingForPair' = TRUE
  /\ cbpc' = "waiting"
  /\ cbGot' = "none"
  /\ elapsed' = 0
  /\ UNCHANGED <<procVars, confVars, ht, mainVars, pairRejectChan, nPairs, lastPair>>

\* case reject := <-pairRejectChan
PairRecv ==
  /\ Running
  /\ cbpc = "waiting"
  /\ pairRejectChan # <<>>
  /\ cbGot' = IF Head(pairRejectChan) THEN "reject" ELSE "accept"
  /\ pairRejectChan' = Tail(pairRejectChan)
  /\ cbpc' = "decided"
  /\ UNCHANGED <<procVars, confVars, ht, mainVars, isWaitingForPair, elapsed, nPairs, lastPair>>

\* time passes while the callback is parked in its select, up to the moment
\* the timer fires: the seconds in between look alike to the program
Tick ==
  /\ Running
  /\ cbpc = "waiting"
  /\ pairRejectChan = <<>>
  /\ elapsed < PairWindow
  /\ elapsed' = PairWindow
  /\ UNCHANGED <<procVars, confVars, ht, mainVars, isWaitingForPair,
                 pairRejectChan, cbpc, cbGot, nPairs, lastPair>>

\* case <-time.After(3 * time.Second)
PairTimeout ==
  /\ Running
  /\ cbpc = "waiting"
  /\ elapsed = PairWindow
  /\ cbGot' = "timeout"
  /\ cbpc' = "decided"
  /\ UNCHANGED <<procVars, confVars, ht, mainVars, isWaitingForPair,
                 pairRejectChan, elapsed, nPairs, lastPair>>

\* PairAccepts that needs an explicit accept
PairAccepts_OnlyOnAccept(got) == got = "accept"

\* the value PrePairCallback returns: false (reject) only in the branch
\* that received true
PairAccepts(got) == got # "reject"

\* the log line, the return and the deferred isWaitingForPair.Store(false)
PairReturn ==
  /\ Running
  /\ cbpc = "decided"
  /\ nPairs' = nPairs + 1
  /\ lastPair' = [got |-> cbGot, ret |-> PairAccepts(cbGot)]
  /\ isWaitingForPair' = FALSE
  /\ cbpc' = "idle"
  /\ cbGot' = "none"
  /\ elapsed' = 0
  /\ UNCHANGED <<procVars, confVars, ht, mainVars, pairRejectChan>>

NextEvents ==
  \/ \E h \in Handlers : \E e \in Events : Deliver(h, e)
  \/ \E h \in Handlers : HandlerStart(h)
  \/ \E h \in Handlers : HandlerTranscribe(h)
  \/ \E h \in Handlers : HttpSendError(h)
  \/ \E h \in Handlers : \E s \in Statuses : HttpReadError(h, s)
  \/ \E h \in Handlers : \E s \in Statuses : \E b \in Bodies : HttpResponse(h, s, b)
  \/ \E h \in Handlers : HandlerReply(h)

NextMain ==
  \/ \E raw \in StdinLines : ReaderSkip(raw)
  \/ ReaderEOF
  \/ Signal
  \/ MainInterrupt
  \/ MainStdinClosed
  \/ \E raw \in StdinLines : MainRecvLine(raw)
  \/ MainLoad
  \/ MainSend
  \/ \E i \in 1 .. MaxLines : CmdPairPhoneUsage(i)
  \/ \E i \in 1 .. MaxLines : \E err \in BOOLEAN : CmdPairPhone(i, err)
  \/ \E i \in 1 .. MaxLines : CmdReconnect(i)
  \/ \E i \in 1 .. MaxLines : \E err \in BOOLEAN : CmdConnect(i, err)
  \/ \E i \in 1 .. MaxLines : \E err \in BOOLEAN : CmdLogout(i, err)
  \/ \E i \in 1 .. MaxLines : CmdSendUsage(i)
  \/ \E i \in 1 .. MaxLines : \E err \in BOOLEAN : CmdSend(i, err)
  \/ \E i \in 1 .. MaxLines : CmdOther(i)
  \/ PairStart
  \/ PairRecv
  \/ Tick
  \/ PairTimeout
  \/ PairReturn

Next == NextEvents \/ NextMain

\* the whole program
Spec == Init /\ [][Next]_vars

\* the event handlers alone; only the Authorization header depends on the
\* keys, and SpecAuth lets them vary
InitEvents == Init /\ KeyByFlag
SpecEvents == InitEvents /\ [][NextEvents]_vars

\* the event handlers under every configuration of --api-key and API_KEY
InitAuth == Init /\ apiUrlValid
SpecAuth == InitAuth /\ [][NextEvents]_vars

\* the operator loop alone: stdin, signals, commands and pairing, none of
\* which reads the API URL
InitMain == Init /\ apiUrlValid /\ KeyByFlag
SpecMain == InitMain /\ [][NextMain]_vars

\* SpecMain with the scheduling the Go runtime gives: a goroutine that can
\* take a step takes it. The environment owes nothing: no further input,
\* signal or pairing request need ever come.
FairSpecMain ==
  /\ SpecMain
  /\ WF_vars(MainInterrupt)
  /\ WF_vars(MainStdinClosed)
  /\ WF_vars(MainLoad)
  /\ WF_vars(MainSend)
  /\ WF_vars(PairRecv)
  /\ WF_vars(Tick)
  /\ WF_vars(PairTimeout)
  /\ WF_vars(PairReturn)
  /\ WF_vars(\E i \in 1 .. MaxLines : \E err \in BOOLEAN :
               \/ CmdPairPhoneUsage(i) \/ CmdPairPhone(i, err)
               \/ CmdReconnect(i) \/ CmdConnect(i, err) \/ CmdLogout(i, err)
               \/ CmdSendUsage(i) \/ CmdSend(i, err) \/ CmdOther(i))

\* Message handling interleaved with operator commands: the events and the
\* lines that make the handlers and the handleCmd tasks work on the shared
\* client at the same time. Pairing, signals and the end of stdin are left
\* to SpecMain.
PlayEvents == {[type |-> "Message", audio |-> "ptt", chat |-> "chatA"]}
PlayLines ==
  {RawLine(FALSE, "reconnect", <<>>), RawLine(FALSE, "LogOut", <<>>),
   RawLine(FALSE, "pair-phone", <<(<<"4">>)>>),
   RawLine(FALSE, "send", <<(<<"4", "@", "s">>), (<<"h">>), (<<"i">>)>>)}
PlayHandlers == 1 .. MaxPlayEvents
PlayTasks == 1 .. MaxPlayLines
NextPlay ==
  \/ \E h \in PlayHandlers : \E e \in PlayEvents : Deliver(h, e)
  \/ \E h \in PlayHandlers : HandlerStart(h)
  \/ \E h \in PlayHandlers : HandlerTranscribe(h)
  \/ \E h \in PlayHandlers : HttpResponse(h, StatusOK, <<104, 105>>)
  \/ \E h \in PlayHandlers : HandlerReply(h)
  \/ \E raw \in PlayLines : MainRecvLine(raw)
  \/ MainLoad
  \/ \E i \in PlayTasks : \E err \in BOOLEAN : CmdPairPhone(i, err)
  \/ \E i \in PlayTasks : CmdReconnect(i)
  \/ \E i \in PlayTasks : \E err \in BOOLEAN : CmdConnect(i, err)
  \/ \E i \in PlayTasks : \E err \in BOOLEAN : CmdLogout(i, err)
  \/ \E i \in PlayTasks : \E err \in BOOLEAN : CmdSend(i, err)
InitPlay == InitOf(<<>>, MaxPlayLines) /\ apiUrlValid /\ KeyByFlag
SpecPlay == InitPlay /\ [][NextPlay]_vars

\* parseJID on every recipient argument up to MaxJidLen: a send command
\* with that recipient has just been started
InitJID ==
  /\ \E j \in JidArgs :
       InitOf(<<NewCmd(Line("send", <<j, (<<"h">>), (<<"i">>)>>))>>, MaxLines - 1)
  /\ apiUrlValid
  /\ KeyByFlag
NextJID == \E err \in BOOLEAN : CmdSend(1, err)
SpecJID == InitJID /\ [][NextJID]_vars

\* ================================================================ claims
IsVoiceNote(h) == ht[h].evt.type = "Message" /\ ht[h].evt.audio = "ptt"

\* C1 as stated: every voice note whose handler ran to its end issued
\* exactly one transcription request, whatever the download did.
C1_ExactlyOneWhateverDownload ==
  \A h \in Handlers :
    (IsVoiceNote(h) /\ ht[h].pc = "done") => ht[h].nRequest = 1

\* C1 amended: a voice note never issues more than one transcription
\* request, and a handler that ran to its end issued exactly one if the
\* download succeeded and the request could be built, and none otherwise,
\* whatever the outcome of the upload.
C1_OneRequestAfterDownload ==
  \A h \in Handlers :
    IsVoiceNote(h) =>
      /\ ht[h].nRequest <= 1
      /\ ht[h].nDownload <= 1
      /\ ht[h].pc = "done" =>
           (ht[h].nRequest = 1 <=> (~ht[h].dlErr /\ apiUrlValid))

C1_Witness ==
  \E h, g \in Handlers :
    /\ IsVoiceNote(h) /\ ht[h].pc = "done" /\ ht[h].nRequest = 1
    /\ ht[h].err = "send"
    /\ IsVoiceNote(g) /\ ht[g].pc = "done" /\ ht[g].dlErr /\ ht[g].nRequest = 0

\* C2: an audio attachment that is not push-to-talk never reaches
\* getTranscription (no request, no warning of it, no result) and gets no
\* reply.
C2_NoTranscriptionWithoutPtt ==
  \A h \in Handlers :
    (ht[h].evt.type = "Message" /\ ht[h].evt.audio = "file") =>
      /\ ht[h].nRequest = 0
      /\ ht[h].nWarn = 0
      /\ ht[h].err = "none"
      /\ ht[h].pc \notin {"http", "returned"}
      /\ ht[h].maybeText = NilText
      /\ ht[h].replies = <<>>

C2_Witness ==
  \E h, g \in Handlers :
    /\ ht[h].evt.audio = "file" /\ ht[h].pc = "done"
    /\ ht[h].nDownload = 1 /\ ~ht[h].dlErr
    /\ IsVoiceNote(g) /\ ht[g].replies # <<>>

\* C3: when the HTTP send fails, getTranscription returns nil after exactly
\* one warning, the handler sends no reply for that voice note, and the
\* failure leaves the process running.
C3_SendFailure ==
  [][\A h \in Handlers :
       /\ ht'[h].err = "send" =>
            /\ ht'[h].maybeText = NilText
            /\ ht'[h].nWarn = 1
            /\ ht'[h].nRequest = 1
            /\ ht'[h].replies = <<>>
       /\ (ht[h].err # "send" /\ ht'[h].err = "send") => proc' = "Running"]_vars

C3_Witness ==
  \E h \in Handlers :
    /\ ht[h].err = "send" /\ ht[h].pc = "done" /\ ht[h].nWarn = 1
    /\ proc = "Running"

\* getTranscription has returned to handler task h
Returned(h) ==
  /\ IsVoiceNote(h)
  /\ ht[h].pc \in {"returned", "done"}
  /\ ht[h].nDownload = 1 /\ ~ht[h].dlErr

\* C4: getTranscription returns nil on a construction, transport or
\* body-read error and otherwise the whole response body, for every status
\* code; the handler then posts that body as its reply.
C4_BodyOrNil ==
  \A h \in Handlers :
    Returned(h) =>
      /\ ht[h].err # "none" => ht[h].maybeText = NilText
      /\ ht[h].err = "none" =>
           /\ ht[h].status \in Statuses
           /\ ht[h].maybeText = <<ht[h].body>>
           /\ ht[h].pc = "done" =>
                /\ Len(ht[h].replies) = 1
                /\ ht[h].replies[1].text = ht[h].body

C4_Witness ==
  \E h \in Handlers :
    /\ Returned(h) /\ ht[h].pc = "done"
    /\ ht[h].status # StatusOK /\ ht[h].err = "none"
    /\ ht[h].body # <<>>
    /\ ht[h].replies = <<[to |-> ht[h].evt.chat, text |-> ht[h].body]>>

\* C5: a handler whose transcript is not nil sends exactly one reply, to the
\* chat of its own voice note and with its own transcript as the text; no
\* handler sends anything else.
C5_ReplyToOwnChat ==
  \A h \in Handlers :
    /\ Len(ht[h].replies) <= 1
    /\ \A k \in 1 .. Len(ht[h].replies) :
         /\ IsVoiceNote(h)
         /\ ht[h].maybeText # NilText
         /\ ht[h].replies[k].to = ht[h].evt.chat
         /\ ht[h].replies[k].text = ht[h].maybeText[1]
    /\ (ht[h].pc = "done" /\ ht[h].maybeText # NilText) => Len(ht[h].replies) = 1

C5_Witness ==
  \E h, g \in Handlers :
    /\ ht[h].pc = "done" /\ ht[g].pc = "done"
    /\ ht[h].evt.chat # ht[g].evt.chat
    /\ ht[h].body # ht[g].body
    /\ Len(ht[h].replies) = 1 /\ Len(ht[g].replies) = 1

\* C6: the handler of a StreamReplaced or Disconnected event takes the
\* process from Running to Terminated; once Terminated the process stays
\* Terminated and no task does anything any more.
C6_TerminalEvent ==
  [][/\ \A h \in Handlers :
          (ht[h].pc = "start" /\ IsTerminalEvent(ht[h].evt) /\ ht'[h].pc # "start")
            => (proc = "Running" /\ proc' = "Terminated" /\ exitCode' = 0)
     /\ proc = "Terminated" =>
          (proc' = "Terminated" /\ UNCHANGED <<ht, cmds, finished, connected>>)]_vars

C6_Witness ==
  \E h, g \in Handlers :
    /\ proc = "Terminated"
    /\ IsTerminalEvent(ht[h].evt) /\ ht[h].pc = "done"
    /\ IsVoiceNote(g) /\ ht[g].pc = "http"

\* C7 as stated: a send command whose recipient (after an optional leading
\* '+') has no '@' sends to that user on the default server, one of the form
\* user@server sends to that user on that server, and a recipient without a
\* user part is rejected with one logged error and no send, so that no
\* message is ever sent to a recipient whose user part is empty.
C7_RecipientParsing ==
  \A t \in finished :
    (t.cmd = "send" /\ Len(t.args) >= 2) =>
      LET arg == t.args[1]
          a == IF arg[1] = "+" THEN Tail(arg) ELSE arg
          parts == Split(a, "@")
      IN /\ parts[1] = <<>> => (t.sent = <<>> /\ t.ops = <<>> /\ t.nErr = 1)
         /\ (parts[1] # <<>> /\ Len(parts) = 1) =>
              (Len(t.sent) = 1 /\ t.sent[1].to = [User |-> a, Server |-> DefaultUserServer])
         /\ (parts[1] # <<>> /\ Len(parts) = 2) =>
              (Len(t.sent) = 1 /\ t.sent[1].to = [User |-> parts[1], Server |-> parts[2]])
         /\ \A k \in 1 .. Len(t.sent) : t.sent[k].to.User # <<>>

\* C8: the pairing callback is never stuck in its select and never waits
\* past the 3-second window; it returns reject exactly when it received a
\* reject decision, and accept on an accept decision and on the timeout.
C8_PairDecision ==
  /\ elapsed <= PairWindow
  /\ (Running /\ cbpc = "waiting") => ENABLED (PairRecv \/ Tick \/ PairTimeout)
  /\ (Running /\ cbpc = "waiting" /\ elapsed = PairWindow) => ENABLED PairTimeout
  /\ cbpc = "decided" => cbGot \in {"reject", "accept", "timeout"}
  /\ cbGot = "timeout" => elapsed = PairWindow
  /\ nPairs > 0 =>
       /\ lastPair.got \in {"reject", "accept", "timeout"}
       /\ lastPair.ret = FALSE <=> lastPair.got = "reject"
       /\ lastPair.got \in {"accept", "timeout"} => lastPair.ret = TRUE

C8_Witness ==
  /\ nPairs > 0 /\ lastPair.got = "reject" /\ lastPair.ret = FALSE
  /\ cbpc = "decided" /\ cbGot = "timeout"

\* C9 as stated: a decision is put on pairRejectChan only while a pairing
\* decision is pending (isWaitingForPair is true), and handleCmd is started
\* only while none is pending.
C9_DecisionsOnlyWhilePending ==
  [][/\ Len(pairRejectChan') > Len(pairRejectChan) => isWaitingForPair
     /\ Len(cmds') > Len(cmds) => ~isWaitingForPair]_vars

\* C10 as stated, in its weakest reading: once a signal is pending or stdin
\* is closed, the main loop eventually ends the process (the claim adds
\* that the code is 0 and that no execution ends with another code).
C10_InterruptLeadsToExit ==
  (sigPending \/ inputClosed) ~> (proc = "Terminated")

\* C11 as stated: every transcription request carries the Authorization
\* header "Bearer " followed by the value of --api-key when the flag is
\* given, and by the value of API_KEY when the flag is not given and the
\* environment variable is set.
C11_KeyFromFlagOrEnv ==
  \A h \in Handlers : \A k \in 1 .. Len(ht[h].auth) :
    /\ apiKey # <<>> => ht[h].auth[k] = <<"Bearer", " ">> \o apiKey
    /\ (apiKey = <<>> /\ envApiKey # <<>>) =>
         ht[h].auth[k] = <<"Bearer", " ">> \o envApiKey

\* the handleCmd task t got an error from the client operation of cmd
FailedCmd(t, cmd) == t.cmd = cmd /\ t.callErr

\* C12: an error of the pair-by-phone call ends the whole process, the
\* handlers in flight included: nothing runs afterwards. An error of
\* reconnect, logout or send is logged once and the process stays Running,
\* with every pending step of the handlers, the commands and the main loop
\* still able to run; nothing but a failed pair-phone panics.
C12_FailurePolicy ==
  /\ [](/\ \A t \in finished : FailedCmd(t, "pair-phone") => proc = "Terminated"
        /\ exitCode = PanicExit => \E t \in finished : FailedCmd(t, "pair-phone")
        /\ \A t \in finished :
             (t.cmd \in {"reconnect", "logout", "send"} /\ t.callErr) => t.nErr = 1
        /\ (Running /\ \E t \in finished : t.callErr) =>
             /\ \A h \in Handlers : ht[h].pc = "start" => ENABLED HandlerStart(h)
             /\ \A h \in Handlers : ht[h].pc = "returned" => ENABLED HandlerReply(h)
             /\ mainpc = "load" => ENABLED MainLoad
             /\ \A i \in 1 .. Len(cmds) :
                  ENABLED (\E err \in BOOLEAN :
                             \/ CmdPairPhone(i, err) \/ CmdReconnect(i)
                             \/ CmdConnect(i, err) \/ CmdLogout(i, err)
                             \/ CmdSend(i, err)))
  /\ [][/\ \A t \in finished' \ finished :
             (t.cmd \in {"reconnect", "logout", "send"} /\ t.callErr)
               => proc' = "Running"
        /\ proc = "Terminated" =>
             UNCHANGED <<ht, cmds, finished, connected, mainpc>>]_vars

C12_Witness ==
  /\ proc = "Terminated" /\ exitCode = PanicExit
  /\ \E t \in finished : FailedCmd(t, "logout") /\ t.nErr = 1
  /\ \E t \in finished : FailedCmd(t, "pair-phone")
  /\ \E h \in Handlers : ht[h].pc = "http"

\* C13: a handler whose download failed made that one download and nothing
\* else: no transcription request, no warning of getTranscription, no reply,
\* and it is at its end. The failure leaves the process Running and the
\* other handlers untouched, and the events delivered before or after it
\* can still be handled.
C13_DownloadFailureDrops ==
  /\ [](\A h \in Handlers :
          ht[h].dlErr =>
            /\ ht[h].nDownload = 1
            /\ ht[h].nRequest = 0 /\ ht[h].auth = <<>>
            /\ ht[h].nWarn = 0 /\ ht[h].maybeText = NilText
            /\ ht[h].replies = <<>>
            /\ ht[h].pc = "done"
            /\ Running =>
                 \A g \in Handlers :
                   /\ ht[g].pc = "start" => ENABLED HandlerStart(g)
                   /\ ht[g].pc = "downloaded" => ENABLED HandlerTranscribe(g)
                   /\ ht[g].pc = "returned" => ENABLED HandlerReply(g)
                   /\ (g = h + 1 /\ ht[g].pc = "idle") =>
                        \A e \in Events : ENABLED Deliver(g, e))
  /\ [][\A h \in Handlers :
          (~ht[h].dlErr /\ ht'[h].dlErr) =>
            /\ proc' = "Running"
            /\ \A g \in Handlers \ {h} : ht'[g] = ht[g]]_vars

C13_Witness ==
  \E h, g \in Handlers :
    /\ h < g /\ Running
    /\ IsVoiceNote(h) /\ ht[h].dlErr /\ ht[h].pc = "done" /\ ht[h].nDownload = 1
    /\ IsVoiceNote(g) /\ ht[g].pc = "done" /\ Len(ht[g].replies) = 1

\* C14 as stated: reconnect calls Disconnect strictly before Connect, every
\* command runs as a task of its own, and every reply of a handler is sent
\* while the shared client is connected.
C14_RepliesWhileConnected ==
  /\ \A t \in finished :
       t.cmd = "reconnect" => t.ops = <<"Disconnect", "Connect">>
  /\ \A i \in 1 .. Len(cmds) :
       cmds[i].cmd = "reconnect" =>
         cmds[i].ops = (IF cmds[i].pc = "connect" THEN <<"Disconnect">> ELSE <<>>)
  /\ \A h \in Handlers : \A k \in 1 .. Len(ht[h].replyConn) : ht[h].replyConn[k]

\* the four command names, in every spelling of them that stdin yields
CommandNames == {"pair-phone", "reconnect", "logout", "LogOut", "send"}

\* a handleCmd task that C15 says does nothing: an unrecognized name,
\* pair-phone without an argument, send with fewer than two arguments
Quiet(t) ==
  \/ t.cmd \notin CommandNames
  \/ t.cmd = "pair-phone" /\ Len(t.args) < 1
  \/ t.cmd = "send" /\ Len(t.args) < 2

\* C15: a handleCmd task with an unrecognized command name, the names being
\* compared without regard to case, calls no client operation and logs
\* nothing, and the step in which it returns changes neither the client, nor
\* the pairing state, nor the process, nor the main loop; pair-phone without
\* an argument and send with fewer than two arguments do the same, but for
\* one logged usage error.
C15_QuietCommands ==
  /\ [](\A t \in finished :
          /\ Quiet(t) => (t.ops = <<>> /\ t.sent = <<>> /\ ~t.callErr)
          /\ t.cmd \notin CommandNames => t.nErr = 0
          /\ t.cmd \in {"logout", "LogOut"} => t.ops = <<"Logout">>)
  /\ [][\A i \in 1 .. Len(cmds) :
          (/\ cmds[i].pc = "start" /\ Quiet(cmds[i])
           /\ cmds' = SubSeq(cmds, 1, i - 1) \o SubSeq(cmds, i + 1, Len(cmds)))
          => UNCHANGED <<procVars, connected, pairVars, ht, sigPending,
                         linesLeft, inputClosed, mainpc, mainCmd>>]_vars

C15_Witness ==
  /\ Running /\ connected
  /\ \E t \in finished : t.cmd \notin CommandNames /\ t.args = <<>>
  /\ \E t \in finished : t.cmd = "send" /\ Len(t.args) = 1 /\ t.nErr = 1

\* an event that C16 says is ignored: neither Message nor StreamReplaced nor
\* Disconnected, or a Message without an audio attachment
Ignored(e) ==
  \/ e.type \notin {"none", "Message", "StreamReplaced", "Disconnected"}
  \/ e.type = "Message" /\ e.audio = "none"

\* C16: the handler of an ignored event downloads nothing, requests no
\* transcription, logs no warning and sends no reply, and the step in which
\* it runs changes nothing but its own position: the process stays as it
\* was and so do the other handlers and the client.
C16_IgnoredEvents ==
  /\ [](\A h \in Handlers :
          Ignored(ht[h].evt) =>
            /\ ht[h].nDownload = 0 /\ ht[h].audio_data = <<>> /\ ~ht[h].dlErr
            /\ ht[h].nRequest = 0 /\ ht[h].auth = <<>>
            /\ ht[h].nWarn = 0 /\ ht[h].maybeText = NilText
            /\ ht[h].replies = <<>>
            /\ ht[h].pc \in {"start", "done"})
  /\ [][\A h \in Handlers :
          (Ignored(ht[h].evt) /\ ht'[h] # ht[h]) =>
            /\ ht'[h] = [ht[h] EXCEPT !.pc = "done"]
            /\ \A g \in Handlers \ {h} : ht'[g] = ht[g]
            /\ UNCHANGED <<procVars, confVars, mainVars, pairVars>>]_vars

C16_Witness ==
  \E h, g \in Handlers :
    /\ Running
    /\ ht[h].evt.type = "Receipt" /\ ht[h].pc = "done"
    /\ ht[g].evt.type = "Message" /\ ht[g].evt.audio = "none" /\ ht[g].pc = "done"

\* C17 as stated: whenever no pairing callback is executing, the buffer of
\* pairRejectChan is empty, so that no decision outlives the request it was
\* typed for.
C17_NoStaleDecision ==
  cbpc = "idle" => pairRejectChan = <<>>

\* C18 as stated: the main loop never waits at its send on pairRejectChan:
\* whenever it is at the send, the buffer has room.
C18_SendNeverBlocks ==
  (Running /\ mainpc = "send") => ENABLED MainSend

\* C19: the main loop gets the empty string from input, and with it the
\* "Stdin closed" shutdown, only when stdin was closed, and it does get it
\* then; no step that consumes a line of stdin ends the process, so a blank
\* or white-space line does not; and every line the loop goes on with has a
\* first token.
C19_EmptyOnlyWhenClosed ==
  /\ [](/\ mainpc \in {"load", "send"} => LineLen(mainCmd) > 0
        /\ (Running /\ mainpc = "select" /\ inputClosed) => ENABLED MainStdinClosed
        /\ (Running /\ mainpc = "select" /\ ~inputClosed) => ~ENABLED MainStdinClosed
        /\ \A i \in 1 .. Len(cmds) : cmds[i].cmd # ""
        /\ \A t \in finished : t.cmd # "")
  /\ [][/\ linesLeft' < linesLeft => proc' = "Running"
        /\ (/\ proc = "Running" /\ proc' = "Terminated"
            /\ sigPending' = sigPending /\ cmds' = cmds)
           => (inputClosed /\ mainpc = "select" /\ exitCode' = 0 /\ ~connected')]_vars

C19_Witness ==
  /\ proc = "Terminated" /\ exitCode = 0 /\ sigPending
  /\ inputClosed /\ linesLeft = 0
  /\ cmds = <<>> /\ finished = {} /\ nPairs = 0 /\ cbpc = "idle"
====
